---- MODULE Spec2Model ----
(***************************************************************************)
(* QAOA MaxCut on a small unweighted graph: the circuit of src/main.py     *)
(* (qaoa_maxcut, Adagrad, lightning.qubit with shots=1) and of src/test.py *)
(* (optimize_qaoa, gradient descent, default.qubit).                       *)
(*                                                                         *)
(* Angles are integers in units of pi/4, and every rotation angle that    *)
(* reaches a gate is an even number of units (a multiple of pi/2).  Such   *)
(* gates map amplitudes of the form (re + i*im) / sqrt(2)^sc with integer  *)
(* re, im to amplitudes of the same form, so the state vector is computed  *)
(* exactly: a state is [amp |-> basis index -> <<re, im>>, sc |-> the      *)
(* exponent of 1/sqrt(2)].  Wire 0 is the most significant bit of a basis  *)
(* index, as in PennyLane.                                                 *)
(***************************************************************************)
EXTENDS Integers, Sequences, FiniteSets, TLC

VARIABLES
    variant,      \* "main" (src/main.py) or "test" (src/test.py)
    edges,        \* edge list of the run: sequence of <<i, j>> (main: graph)
    num_qubits,   \* register size of the device (main: n_wires)
    p,            \* number of layers (main: n_layers)
    params,       \* main: <<gammas, betas>> (shape (2, p)); test: flat, 2p entries
    edge,         \* circuit argument edge: None or <<i, j>>
    pc,           \* position of the running function
    state,        \* state vector of the device
    gates,        \* the gates issued so far by the running circuit evaluation
    result,       \* what the circuit evaluation returned
    \* the optimisation loop (qaoa_maxcut, optimize_qaoa)
    steps,        \* iteration count
    i,            \* loop counter: iterations completed
    init_params,  \* content of the array init_params is bound to
    params_id,    \* identity of the array params is bound to (0: init_params' array)
    caller,       \* who called the running cost evaluation
    eidx,         \* objective: index of the edge evaluated next
    neg_obj,      \* objective: 2 * neg_obj (so that it stays an integer)
    runs,         \* device executions of the running cost evaluation
    last_runs,    \* device executions of the last completed cost evaluation (-1: none)
    cost_log,     \* the costs (times 2) objective returned for the current vector
    ret,          \* the parameter array the run ends with: [id, vector]
    \* sampling and report (qaoa_maxcut)
    bit_strings,  \* the sampled integers
    most_freq_bit_string

cvars == <<variant, edges, num_qubits, p, params, edge, pc, state, gates, result>>

ovars == <<steps, i, init_params, params_id, caller, eidx, neg_obj, runs, last_runs, cost_log, ret>>

rvars == <<bit_strings, most_freq_bit_string>>

vars == <<cvars, ovars, rvars>>

\* Python's None, as the empty tuple (comparable with an edge <<i, j>>)
None == <<>>

(* ------------------------------ bounds -------------------------------- *)
MaxAngle == 2
MaxVertex == 2
MaxEdges == 2
MaxSteps == 3
MaxSamples == 3
MaxBits == 6

(* --------------------------- program constants ------------------------ *)
n_wires == 4
MaxLayers == 2
graph == << <<0, 1>>, <<0, 3>>, <<1, 2>>, <<2, 3>> >>
test_edges == << <<0, 1>>, <<1, 2>>, <<2, 3>>, <<3, 0>>, <<0, 2>> >>

\* parameter values, in units of pi/4
Angles == 0..MaxAngle

\* main.py passes gamma itself to RZ: the gammas that RZ takes exactly
EvenAngles == {a \in Angles : a % 2 = 0}

(* ---------------------------- state vector ---------------------------- *)
Dim(n) == 2^n

BitOf(b, w, n) == (b \div 2^(n - 1 - w)) % 2

Flip(b, w, n) == IF BitOf(b, w, n) = 0 THEN b + 2^(n - 1 - w) ELSE b - 2^(n - 1 - w)

CAdd(x, y) == <<x[1] + y[1], x[2] + y[2]>>

CMul(x, y) == <<x[1] * y[1] - x[2] * y[2], x[1] * y[2] + x[2] * y[1]>>

\* <<cos, sin>> of t*pi/4, times sqrt(2) when t is odd
CosSin(t) ==
    LET m == t % 8 IN
    CASE m = 0 -> <<1, 0>>
      [] m = 1 -> <<1, 1>>
      [] m = 2 -> <<0, 1>>
      [] m = 3 -> <<-1, 1>>
      [] m = 4 -> <<-1, 0>>
      [] m = 5 -> <<-1, -1>>
      [] m = 6 -> <<0, -1>>
      [] OTHER -> <<1, -1>>

AllEven(amp) == \A b \in DOMAIN amp : amp[b][1] % 2 = 0 /\ amp[b][2] % 2 = 0

RECURSIVE Reduce(_)
\* the unique representative with the smallest exponent
Reduce(st) ==
    IF st.sc >= 2 /\ AllEven(st.amp)
    THEN Reduce([amp |-> [b \in DOMAIN st.amp |-> <<st.amp[b][1] \div 2, st.amp[b][2] \div 2>>],
                 sc |-> st.sc - 2])
    ELSE st

\* |0...0>
ZeroState(n) == [amp |-> [b \in 0..(Dim(n) - 1) |-> IF b = 0 THEN <<1, 0>> ELSE <<0, 0>>], sc |-> 0]

Hadamard(st, w, n) ==
    Reduce([amp |-> [b \in DOMAIN st.amp |->
                        IF BitOf(b, w, n) = 0
                        THEN CAdd(st.amp[b], st.amp[Flip(b, w, n)])
                        ELSE CAdd(st.amp[Flip(b, w, n)], CMul(<<-1, 0>>, st.amp[b]))],
            sc |-> st.sc + 1])

CNOT(st, c, t, n) ==
    [amp |-> [b \in DOMAIN st.amp |->
                 IF BitOf(b, c, n) = 1 THEN st.amp[Flip(b, t, n)] ELSE st.amp[b]],
     sc |-> st.sc]

\* RZ(theta) = diag(exp(-i theta/2), exp(i theta/2)), theta = a * pi/4, a even
RZ(st, a, w, n) ==
    LET t == a \div 2
        cs == CosSin(t) IN
    Reduce([amp |-> [b \in DOMAIN st.amp |->
                        IF BitOf(b, w, n) = 0
                        THEN CMul(<<cs[1], -cs[2]>>, st.amp[b])
                        ELSE CMul(<<cs[1], cs[2]>>, st.amp[b])],
            sc |-> st.sc + (t % 2)])

\* RX(theta) = cos(theta/2) I - i sin(theta/2) X, theta = a * pi/4, a even
RX(st, a, w, n) ==
    LET t == a \div 2
        cs == CosSin(t) IN
    Reduce([amp |-> [b \in DOMAIN st.amp |->
                        CAdd(CMul(<<cs[1], 0>>, st.amp[b]),
                             CMul(<<0, -cs[2]>>, st.amp[Flip(b, w, n)]))],
            sc |-> st.sc + (t % 2)])

Prob2(st, b) == st.amp[b][1] * st.amp[b][1] + st.amp[b][2] * st.amp[b][2]

RECURSIVE SumUpTo(_, _)
SumUpTo(f, k) == IF k < 0 THEN 0 ELSE f[k] + SumUpTo(f, k - 1)

Norm2(st) == SumUpTo([b \in DOMAIN st.amp |-> Prob2(st, b)], Cardinality(DOMAIN st.amp) - 1)

(* ------------------------------- gates -------------------------------- *)
Gate(name, wires, angle) == [gate |-> name, wires |-> wires, angle |-> angle]

RECURSIVE Concat(_)
Concat(seqs) == IF seqs = <<>> THEN <<>> ELSE Head(seqs) \o Concat(Tail(seqs))

\* main.py: for wire in range(n_wires): qml.RX(2 * beta, wires=wire)
U_B(beta) == [w \in 1..n_wires |-> Gate("RX", <<w - 1>>, 2 * beta)]

\* main.py: for edge in graph: CNOT, RZ(gamma) on wire2, CNOT
U_C(gamma) ==
    Concat([e \in 1..Len(graph) |->
               << Gate("CNOT", <<graph[e][1], graph[e][2]>>, 0),
                  Gate("RZ", <<graph[e][2]>>, gamma),
                  Gate("CNOT", <<graph[e][1], graph[e][2]>>, 0) >>])

circuit_mixer_first(gammas, betas, n_layers) ==
    [w \in 1..n_wires |-> Gate("Hadamard", <<w - 1>>, 0)]
    \o Concat([l \in 1..n_layers |-> U_B(betas[l]) \o U_C(gammas[l])])

\* the gates queued by main.py's circuit(gammas, betas, edge, n_layers)
circuit(gammas, betas, n_layers) ==
    [w \in 1..n_wires |-> Gate("Hadamard", <<w - 1>>, 0)]
    \o Concat([l \in 1..n_layers |-> U_C(gammas[l]) \o U_B(betas[l])])

Max2(a, b) == IF a >= b THEN a ELSE b

RECURSIVE MaxVertexOf(_)
MaxVertexOf(es) ==
    IF Len(es) = 1 THEN Max2(es[1][1], es[1][2])
    ELSE Max2(Max2(es[1][1], es[1][2]), MaxVertexOf(Tail(es)))

NumQubits_without_one(es) == MaxVertexOf(es)

\* test.py: num_qubits = max(max(edge) for edge in edges) + 1
NumQubits(es) == MaxVertexOf(es) + 1

\* the gates queued by test.py's qaoa_circuit(params, edges, p)
qaoa_circuit(ps, es, layers) ==
    [w \in 1..NumQubits(es) |-> Gate("Hadamard", <<w - 1>>, 0)]
    \o Concat([l \in 1..layers |->
                  Concat([e \in 1..Len(es) |->
                             << Gate("CNOT", <<es[e][1], es[e][2]>>, 0),
                                Gate("RZ", <<es[e][2]>>, -2 * ps[l]),
                                Gate("CNOT", <<es[e][1], es[e][2]>>, 0) >>])
                  \o [w \in 1..NumQubits(es) |-> Gate("RX", <<w - 1>>, 2 * ps[layers + l])]])

\* the gate sequence of the running circuit evaluation
Tape ==
    IF variant = "main" THEN circuit(params[1], params[2], p)
    ELSE qaoa_circuit(params, edges, p)

InRegister(wires, n) == \A k \in 1..Len(wires) : wires[k] \in 0..(n - 1)

ApplyGate(st, op, n) ==
    CASE op.gate = "Hadamard" -> Hadamard(st, op.wires[1], n)
      [] op.gate = "CNOT" -> CNOT(st, op.wires[1], op.wires[2], n)
      [] op.gate = "RZ" -> RZ(st, op.angle, op.wires[1], n)
      [] OTHER -> RX(st, op.angle, op.wires[1], n)

(* ---------------------------- measurements ---------------------------- *)
\* basis states a computational-basis shot can return
Outcomes(st) == {b \in DOMAIN st.amp : Prob2(st, b) > 0}

\* the bit sequence of a sample, wire 0 first
Bits(b, n) == [w \in 1..n |-> BitOf(b, w - 1, n)]

\* eigenvalue of PauliZ(w1) @ PauliZ(w2) on basis state b
ZZ(b, w1, w2, n) == IF BitOf(b, w1, n) = BitOf(b, w2, n) THEN 1 ELSE -1

\* <state| Z_w1 Z_w2 |state>, as a fraction
ExactExpval(st, w1, w2, n) ==
    [num |-> SumUpTo([b \in DOMAIN st.amp |-> ZZ(b, w1, w2, n) * Prob2(st, b)], Dim(n) - 1),
     den |-> Norm2(st)]

\* main.py: dev = qml.device("lightning.qubit", wires=n_wires, shots=1)
shots == 1

\* the values qml.expval(PauliZ(w1) @ PauliZ(w2)) can return on the device of
\* main.py: with shots = 1 the estimate is the eigenvalue of the one shot taken
ShotExpvals(st, w1, w2, n) ==
    IF shots = 1 THEN {ZZ(b, w1, w2, n) : b \in Outcomes(st)}
    ELSE {ExactExpval(st, w1, w2, n)}

MeasurementOf_always_sample(e) == "sample"

\* main.py circuit: edge is None selects qml.sample(), an edge qml.expval(H)
MeasurementOf(e) == IF e = None THEN "sample" ELSE "expval"

(* ----------------------- one circuit evaluation ----------------------- *)
Issued == Len(gates)

NextOp == Tape[Issued + 1]

\* the next queued gate is `name`
Queued(name) == pc = "run" /\ Issued < Len(Tape) /\ NextOp.gate = name

\* the device applies the next gate; a wire outside the register aborts the run
Issue ==
    /\ gates' = Append(gates, NextOp)
    /\ IF InRegister(NextOp.wires, num_qubits)
       THEN /\ state' = ApplyGate(state, NextOp, num_qubits)
            /\ pc' = "run"
            /\ result' = result
       ELSE /\ state' = state
            /\ pc' = "error"
            /\ result' = [kind |-> "DimensionError"]
    /\ UNCHANGED <<variant, edges, num_qubits, p, params, edge, ovars, rvars>>

ApplyHadamard ==
    /\ Queued("Hadamard")
    /\ Issue

ApplyCNOT ==
    /\ Queued("CNOT")
    /\ Issue

ApplyRZ ==
    /\ Queued("RZ")
    /\ Issue

ApplyRX ==
    /\ Queued("RX")
    /\ Issue

\* main.py: return qml.sample()
Sample ==
    /\ pc = "run" /\ Issued = Len(Tape)
    /\ variant = "main" /\ MeasurementOf(edge) = "sample"
    /\ \E b \in Outcomes(state) :
          result' = [kind |-> "sample", bits |-> Bits(b, num_qubits)]
    /\ pc' = "done"
    /\ UNCHANGED <<variant, edges, num_qubits, p, params, edge, state, gates, ovars, rvars>>

\* main.py: H = PauliZ(edge[0]) @ PauliZ(edge[1]); return qml.expval(H)
Expval ==
    /\ pc = "run" /\ Issued = Len(Tape)
    /\ variant = "main" /\ MeasurementOf(edge) = "expval"
    /\ IF InRegister(edge, num_qubits)
       THEN /\ \E v \in ShotExpvals(state, edge[1], edge[2], num_qubits) :
                  result' = [kind |-> "expval", value |-> v]
            /\ pc' = "done"
       ELSE /\ result' = [kind |-> "DimensionError"]
            /\ pc' = "error"
    /\ UNCHANGED <<variant, edges, num_qubits, p, params, edge, state, gates, ovars, rvars>>

\* test.py: return [qml.expval(PauliZ(i) @ PauliZ(j)) for i, j in edges]
ExpvalAll ==
    /\ pc = "run" /\ Issued = Len(Tape)
    /\ variant = "test"
    /\ IF \A e \in 1..Len(edges) : InRegister(edges[e], num_qubits)
       THEN /\ result' = [kind |-> "expvals",
                          values |-> [e \in 1..Len(edges) |->
                                        ExactExpval(state, edges[e][1], edges[e][2], num_qubits)]]
            /\ pc' = "done"
       ELSE /\ result' = [kind |-> "DimensionError"]
            /\ pc' = "error"
    /\ UNCHANGED <<variant, edges, num_qubits, p, params, edge, state, gates, ovars, rvars>>

Range(s) == {s[k] : k \in 1..Len(s)}

NoResult == [kind |-> "none"]

\* the variables of the optimisation loop, outside an optimisation run
IdleOpt ==
    /\ steps = 0 /\ i = 0 /\ init_params = <<>> /\ params_id = 0 /\ caller = "none"
    /\ eidx = 0 /\ neg_obj = 0 /\ runs = 0 /\ last_runs = -1 /\ cost_log = <<>> /\ ret = None

\* the variables of the report, outside the sampling phase
IdleReport == bit_strings = <<>> /\ most_freq_bit_string = -1

\* a call of circuit(...) (main.py) or of the QNode around qaoa_circuit (test.py)
InitCall(grs, gs, bs) ==
    /\ IdleOpt /\ IdleReport
    /\ variant \in {"main", "test"}
    /\ p \in 1..MaxLayers
    /\ IF variant = "main"
       THEN /\ edges = graph
            /\ num_qubits = n_wires
            /\ params \in {<<g, b>> : g \in [1..p -> gs], b \in [1..p -> bs]}
            /\ edge \in {None} \cup Range(graph)
       ELSE /\ edges \in grs
            /\ num_qubits = NumQubits(edges)
            /\ params \in [1..(2 * p) -> bs]
            /\ edge = None
    /\ pc = "run"
    /\ state = ZeroState(num_qubits)
    /\ gates = <<>>
    /\ result = NoResult

Init == InitCall({test_edges, << <<0, 1>> >>, << <<2, 1>>, <<0, 2>> >>}, EvenAngles, Angles)

Next == ApplyHadamard \/ ApplyCNOT \/ ApplyRZ \/ ApplyRX \/ Sample \/ Expval \/ ExpvalAll

Spec == Init /\ [][Next]_vars

\* every edge list of at most MaxEdges pairs of distinct vertices 0..MaxVertex
EdgeLists ==
    LET Pairs == {e \in (0..MaxVertex) \X (0..MaxVertex) : e[1] # e[2]}
    IN UNION {[1..k -> Pairs] : k \in 1..MaxEdges}

InitWires == InitCall(EdgeLists, {0}, {0})

\* circuit evaluations over every small graph
SpecWires == InitWires /\ [][Next]_vars

(* -------------------------- optimisation loop -------------------------- *)
RECURSIVE Run(_, _, _)
\* the gates of a tape applied in order (a register without basis states runs nothing)
Run(st, tape, n) ==
    IF st.amp = <<>> \/ tape = <<>> THEN st
    ELSE Run(ApplyGate(st, Head(tape), n), Tail(tape), n)

\* one execution of a tape on the device: the QNode starts it from |0...0>
Execute(tape, n) == Run(ZeroState(n), tape, n)

\* the (gammas, betas) arrays of shape (2, layers)
MainParams(layers) == {<<g, b>> : g \in [1..layers -> EvenAngles], b \in [1..layers -> Angles]}

\* the flat arrays of 2 * layers entries
TestParams(layers) == [1..(2 * layers) -> Angles]

\* what circuit(gammas, betas, edge=graph[e], n_layers) can return, per argument
circuit_values ==
    [layers \in 1..MaxLayers |->
        [ps \in MainParams(layers) |->
            LET st == Execute(circuit(ps[1], ps[2], layers), n_wires)
            IN [e \in 1..Len(graph) |-> ShotExpvals(st, graph[e][1], graph[e][2], n_wires)]]]

\* main.py: steps = 30
qaoa_steps == 30

\* main.py: if (i + 1) % 5 == 0; test.py: if (i + 1) % 10 == 0
PrintEvery == IF variant = "main" THEN 5 ELSE 10

LoopContinues_stops_early(k, n) == k < n - 1

\* for i in range(steps)
LoopContinues(k, n) == k < n

NewArrayId_in_place(id) == id

\* opt.step returns a new array: the identity of the array it returns
NewArrayId(id) == id + 1

\* the vectors an optimizer step can produce from a vector of this shape
StepResults == IF variant = "main" THEN MainParams(p) ELSE TestParams(p)

\* main.py: init_params = 0.01 * np.random.rand(2, n_layers): values in [0, 0.01)
NearZero(layers) == <<[l \in 1..layers |-> 0], [l \in 1..layers |-> 0]>>

\* test.py: init_params = np.random.uniform(0, np.pi, 2*p)
UniformInit(layers) == {[k \in 1..(2 * layers) |-> a] : a \in Angles}

\* a cost evaluation starts: objective(params) in main.py, cost_function in test.py
CallCost(who) ==
    /\ caller' = who
    /\ runs' = 0
    /\ IF variant = "main"
       THEN pc' = "objective" /\ eidx' = 1 /\ neg_obj' = 0
       ELSE pc' = "cost_function" /\ UNCHANGED <<eidx, neg_obj>>

\* where a finished cost evaluation returns to
ReturnTo(who) ==
    CASE who = "step" -> "update"
      [] who = "print" -> "loop"
      [] OTHER -> "done"

\* params = opt.step(objective, params): the optimizer evaluates the cost
StepBegin ==
    /\ pc = "loop" /\ LoopContinues(i, steps)
    /\ CallCost("step")
    /\ UNCHANGED <<variant, edges, num_qubits, p, params, edge, state, gates, result,
                   steps, i, init_params, params_id, last_runs, cost_log, ret, rvars>>

\* main.py: neg_obj -= 0.5 * (1 - circuit(gammas, betas, edge=edge, n_layers=n_layers))
ObjectiveEdge ==
    /\ pc = "objective" /\ eidx <= Len(graph)
    /\ \E v \in circuit_values[p][params][eidx] : neg_obj' = neg_obj - (1 - v)
    /\ runs' = runs + 1
    /\ eidx' = eidx + 1
    /\ UNCHANGED <<variant, edges, num_qubits, p, params, edge, pc, state, gates, result,
                   steps, i, init_params, params_id, caller, last_runs, cost_log, ret, rvars>>

\* main.py: return neg_obj
ObjectiveReturn ==
    /\ pc = "objective" /\ eidx > Len(graph)
    /\ cost_log' = Append(cost_log, neg_obj)
    /\ last_runs' = runs
    /\ pc' = ReturnTo(caller)
    /\ ret' = IF caller = "return" THEN [id |-> params_id, vector |-> params] ELSE ret
    /\ UNCHANGED <<variant, edges, num_qubits, p, params, edge, state, gates, result,
                   steps, i, init_params, params_id, caller, eidx, neg_obj, runs, rvars>>

\* test.py: cost_function calls qaoa_circuit itself, not the QNode circuit:
\* the gates and measurements are built and nothing runs on the device
CostFunction ==
    /\ pc = "cost_function"
    /\ last_runs' = runs
    /\ pc' = ReturnTo(caller)
    /\ ret' = IF caller = "return" THEN [id |-> params_id, vector |-> params] ELSE ret
    /\ UNCHANGED <<variant, edges, num_qubits, p, params, edge, state, gates, result,
                   steps, i, init_params, params_id, caller, eidx, neg_obj, runs, cost_log, rvars>>

\* params = opt.step(...): params is bound to the array the step returns;
\* then the cost is printed every PrintEvery-th iteration
OptUpdate ==
    /\ pc = "update"
    /\ \E new \in StepResults :
          /\ params' = new
          /\ params_id' = NewArrayId(params_id)
          /\ init_params' = IF NewArrayId(params_id) = 0 THEN new ELSE init_params
    /\ i' = i + 1
    /\ cost_log' = IF params_id' = params_id THEN cost_log ELSE <<>>
    /\ IF (i + 1) % PrintEvery = 0
       THEN CallCost("print")
       ELSE pc' = "loop" /\ UNCHANGED <<caller, eidx, neg_obj, runs>>
    /\ UNCHANGED <<variant, edges, num_qubits, p, edge, state, gates, result,
                   steps, last_runs, ret, rvars>>

\* after the loop: main.py samples and reports (see SpecReport), then both
\* programs evaluate the cost of the final vector for their return value
LoopExit ==
    /\ pc = "loop" /\ ~LoopContinues(i, steps)
    /\ CallCost("return")
    /\ UNCHANGED <<variant, edges, num_qubits, p, params, edge, state, gates, result,
                   steps, i, init_params, params_id, last_runs, cost_log, ret, rvars>>

InitOpt ==
    /\ variant \in {"main", "test"}
    /\ p \in 1..MaxLayers
    /\ IF variant = "main"
       THEN /\ edges = graph
            /\ num_qubits = n_wires
            /\ steps = qaoa_steps
            /\ init_params = NearZero(p)
       ELSE /\ edges = test_edges
            /\ num_qubits = NumQubits(edges)
            /\ steps \in 0..MaxSteps
            /\ init_params \in UniformInit(p)
    /\ params = init_params /\ params_id = 0 /\ i = 0
    /\ pc = "loop" /\ caller = "none" /\ eidx = 0 /\ neg_obj = 0
    /\ runs = 0 /\ last_runs = -1 /\ cost_log = <<>> /\ ret = None
    /\ edge = None /\ state = ZeroState(num_qubits) /\ gates = <<>> /\ result = NoResult
    /\ IdleReport

NextOpt == StepBegin \/ ObjectiveEdge \/ ObjectiveReturn \/ CostFunction \/ OptUpdate \/ LoopExit

\* one run of qaoa_maxcut (main.py) or optimize_qaoa (test.py)
SpecOpt == InitOpt /\ [][NextOpt]_vars

(* -------------------------- sampling and report ------------------------ *)
\* str(bs) of a bit
Str(bit) == IF bit = 0 THEN "0" ELSE "1"

\* "".join(str(bs) for bs in bit_string_sample), as the sequence of its characters
Join(sample) == [k \in 1..Len(sample) |-> Str(sample[k])]

RECURSIVE ParseBase2(_)
\* the value of a string of binary digits, most significant digit first
ParseBase2(str) ==
    IF str = <<>> THEN 0
    ELSE 2 * ParseBase2(SubSeq(str, 1, Len(str) - 1)) + (IF str[Len(str)] = "1" THEN 1 ELSE 0)

int_little_endian(str) == ParseBase2([k \in 1..Len(str) |-> str[Len(str) + 1 - k]])

\* int(bit_string, base=2)
int(str) == ParseBase2(str)

bitstring_to_int(sample) == int(Join(sample))

RECURSIVE MaxOf(_)
MaxOf(xs) == IF Len(xs) = 1 THEN xs[1] ELSE Max2(xs[1], MaxOf(Tail(xs)))

\* np.bincount: counts[v + 1] is the number of occurrences of v, for v in 0..max(xs)
bincount(xs) == [v \in 1..(MaxOf(xs) + 1) |-> Cardinality({k \in 1..Len(xs) : xs[k] = v - 1})]

RECURSIVE Scan(_, _, _)
\* the scan of argmax: the first position holding the largest value
Scan(c, k, best) ==
    IF k > Len(c) THEN best
    ELSE Scan(c, k + 1, IF c[k] > c[best] THEN k ELSE best)

RECURSIVE ScanLast(_, _, _)
ScanLast(c, k, best) ==
    IF k > Len(c) THEN best
    ELSE ScanLast(c, k + 1, IF c[k] >= c[best] THEN k ELSE best)

argmax_last(c) == ScanLast(c, 1, 1) - 1

\* np.argmax: the index (from 0) of the first largest entry
argmax(c) == Scan(c, 1, 1) - 1

\* what circuit(params[0], params[1], edge=None, n_layers) can return, per argument
circuit_samples ==
    [layers \in 1..MaxLayers |->
        [ps \in MainParams(layers) |->
            LET st == Execute(circuit(ps[1], ps[2], layers), n_wires)
            IN {Bits(b, n_wires) : b \in Outcomes(st)}]]

\* main.py: bit_strings.append(bitstring_to_int(circuit(params[0], params[1], edge=None, ...)))
SampleShot ==
    /\ pc = "sampling" /\ Len(bit_strings) < MaxSamples
    /\ \E bits \in circuit_samples[p][params] :
          /\ result' = [kind |-> "sample", bits |-> bits]
          /\ bit_strings' = Append(bit_strings, bitstring_to_int(bits))
    /\ UNCHANGED <<variant, edges, num_qubits, p, params, edge, pc, state, gates,
                   ovars, most_freq_bit_string>>

\* main.py: counts = np.bincount(np.array(bit_strings)); most_freq_bit_string = np.argmax(counts)
Report ==
    /\ pc = "sampling" /\ Len(bit_strings) = MaxSamples
    /\ most_freq_bit_string' = argmax(bincount(bit_strings))
    /\ pc' = "reported"
    /\ UNCHANGED <<variant, edges, num_qubits, p, params, edge, state, gates, result,
                   ovars, bit_strings>>

\* the sampling phase of qaoa_maxcut, on the parameters the optimisation ended with
InitReport ==
    /\ variant = "main" /\ edges = graph /\ num_qubits = n_wires
    /\ p = 1
    /\ params \in MainParams(p)
    /\ edge = None /\ pc = "sampling"
    /\ state = ZeroState(num_qubits) /\ gates = <<>> /\ result = NoResult
    /\ IdleOpt /\ IdleReport

NextReport == SampleShot \/ Report

SpecReport == InitReport /\ [][NextReport]_vars

\* bitstring_to_int applied to one sample
Convert ==
    /\ pc = "convert"
    /\ bit_strings' = Append(bit_strings, bitstring_to_int(result.bits))
    /\ pc' = "converted"
    /\ UNCHANGED <<variant, edges, num_qubits, p, params, edge, state, gates, result,
                   ovars, most_freq_bit_string>>

\* every sample of 1..MaxBits bits
InitBits ==
    /\ variant = "main" /\ edges = graph /\ p = 1 /\ params = NearZero(p)
    /\ num_qubits \in 1..MaxBits
    /\ \E bits \in [1..num_qubits -> {0, 1}] : result = [kind |-> "sample", bits |-> bits]
    /\ edge = None /\ pc = "convert"
    /\ state = ZeroState(num_qubits) /\ gates = <<>>
    /\ IdleOpt /\ IdleReport

SpecBits == InitBits /\ [][Convert]_vars

(* ----------------------- claims on the report -------------------------- *)
RECURSIVE Weighted(_, _)
\* sum of b[k] * 2^(n - k) over k = 1..m, n the length of b
Weighted(b, m) == IF m = 0 THEN 0 ELSE b[m] * 2^(Len(b) - m) + Weighted(b, m - 1)

\* C6: bitstring_to_int reads the sample big-endian (the first bit, wire 0,
\* weighs 2^(n-1)); the result lies in 0..2^n - 1 and no other sample of that
\* length gives the same integer.
C6_BigEndian ==
    (pc = "converted") =>
        LET b == result.bits
            v == bit_strings[Len(bit_strings)]
        IN /\ v = Weighted(b, Len(b))
           /\ v \in 0..(2^Len(b) - 1)
           /\ \A c \in [1..Len(b) -> {0, 1}] : c # b => bitstring_to_int(c) # v

C6_Witness == pc = "converted" /\ result.bits = <<1, 1, 0, 0>> /\ bit_strings = <<12>>

Count(v) == Cardinality({k \in 1..Len(bit_strings) : bit_strings[k] = v})

\* C7: the reported bit string has the largest occurrence count among the
\* sampled values, and among the values with that count it is the smallest.
C7_MostFrequent ==
    (pc = "reported") =>
        /\ Count(most_freq_bit_string) >= 1
        /\ \A v \in 0..(2^n_wires - 1) :
              /\ Count(v) <= Count(most_freq_bit_string)
              /\ Count(v) = Count(most_freq_bit_string) => most_freq_bit_string <= v

C7_Witness ==
    /\ pc = "reported" /\ Len(bit_strings) >= 2
    /\ bit_strings[1] > bit_strings[2]
    /\ Count(bit_strings[1]) = Count(bit_strings[2])
    /\ most_freq_bit_string = bit_strings[2]

(* -------------------- claims on the optimisation loop ------------------ *)
\* C2: objective is a pure function of the parameter vector: all its
\* evaluations on one and the same vector return the same cost, whatever ran
\* in between.
C2_ObjectivePure == \A a, b \in 1..Len(cost_log) : cost_log[a] = cost_log[b]

ShapeOK(v) ==
    IF variant = "main" THEN Len(v) = 2 /\ Len(v[1]) = p /\ Len(v[2]) = p
    ELSE Len(v) = 2 * p

Entries(v) == IF variant = "main" THEN Len(v[1]) + Len(v[2]) ELSE Len(v)

C9_RunPerEdge == last_runs # -1 => last_runs = Len(edges)

(* ------------------- claims on one circuit evaluation ------------------ *)
\* the sum of squared magnitudes is 1
NormInv == Norm2(state) = 2^(state.sc)

Gamma(l) == IF variant = "main" THEN params[1][l] ELSE params[l]

Beta(l) == IF variant = "main" THEN params[2][l] ELSE params[p + l]

\* the k-th gate of a circuit evaluation, by its position alone
ExpectedGate(k) ==
    LET n == num_qubits
        E == Len(edges)
        L == 3 * E + n
        r == k - n - 1
        l == (r \div L) + 1
        q == r % L
        e == edges[(q \div 3) + 1]
    IN IF k <= n THEN Gate("Hadamard", <<k - 1>>, 0)
       ELSE IF q < 3 * E
            THEN IF q % 3 = 1
                 THEN Gate("RZ", <<e[2]>>, IF variant = "main" THEN Gamma(l) ELSE -2 * Gamma(l))
                 ELSE Gate("CNOT", <<e[1], e[2]>>, 0)
            ELSE Gate("RX", <<q - 3 * E>>, 2 * Beta(l))

TotalGates == num_qubits + p * (3 * Len(edges) + num_qubits)

\* C1: a circuit evaluation issues one Hadamard per wire, then per layer the
\* triple CNOT, RZ, CNOT for every edge in edge-list order followed by one RX
\* per wire, nothing else; it measures only after the last of its
\* n + p*(3|E| + n) gates.
C1_GateOrder ==
    /\ Len(gates) <= TotalGates
    /\ \A k \in 1..Len(gates) : gates[k] = ExpectedGate(k)
    /\ result # NoResult => Len(gates) = TotalGates
    /\ pc = "done" => result # NoResult

C1_Witness ==
    /\ pc = "done" /\ variant = "main" /\ p = 2 /\ Len(gates) = 36
    /\ params[1][1] # params[1][2] /\ params[2][1] # params[2][2]

\* C3 as stated: a circuit run without an edge fails with ModeError and returns
\* neither a sample nor an expectation value.
C3_ModeErrorWithoutEdge ==
    (variant = "main" /\ edge = None /\ pc # "run") => result.kind = "ModeError"

\* C3 amended: a circuit run without an edge raises no error: it returns one
\* sample of n_wires bits and never an expectation value; with an edge it
\* returns an expectation value.
C3_NoEdgeSamples ==
    /\ result.kind # "ModeError"
    /\ (variant = "main" /\ pc # "run") =>
         /\ pc = "done"
         /\ edge = None => /\ result.kind = "sample"
                           /\ Len(result.bits) = n_wires
                           /\ \A k \in 1..n_wires : result.bits[k] \in {0, 1}
         /\ edge # None => result.kind = "expval"

C3_Witness == variant = "main" /\ edge = None /\ pc = "done" /\ result.kind = "sample"

EqualSuperposition(st) ==
    /\ \A b \in DOMAIN st.amp : st.amp[b] = st.amp[0]
    /\ Prob2(st, 0) * Cardinality(DOMAIN st.amp) = 2^(st.sc)

\* C8: with p = 1, the 4-cycle and params = [0, 0] the final state is the equal
\* superposition of the 16 basis states and the expectation value returned for
\* every edge is 0.
C8_ZeroParams ==
    (variant = "main" /\ p = 1 /\ params = << <<0>>, <<0>> >> /\ edge # None /\ pc = "done")
        => /\ EqualSuperposition(state)
           /\ result.kind = "expval"
           /\ result.value = 0

\* C10: every gate and every observable of a circuit evaluation targets wires
\* 0..n-1 of the register; no evaluation ends in a DimensionError.
C10_WiresInRegister ==
    /\ \A k \in 1..Len(gates) : InRegister(gates[k].wires, num_qubits)
    /\ pc # "error"
    /\ result.kind # "DimensionError"
    /\ pc = "done" =>
         IF variant = "main" THEN InRegister(edge, num_qubits)
         ELSE \A e \in 1..Len(edges) : InRegister(edges[e], num_qubits)

C10_Witness ==
    /\ pc = "done" /\ variant = "test" /\ Len(edges) = 2 /\ num_qubits = 3
    /\ \E k \in 1..Len(gates) : gates[k].gate = "CNOT" /\ gates[k].wires[2] = num_qubits - 1
====
